---- MODULE Spec2Model ----
(***************************************************************************)
(* SEC master-index ingest page (SECDailyIndices): the chunked upload      *)
(* driver, its operator controls and the file pipeline that feeds it.      *)
(*                                                                         *)
(* React state is modelled by one variable per useState/useRef cell.  An   *)
(* async function that is suspended at an await is a record in `loops`     *)
(* (runChunkedUpload), an element of `counters` (handleFileSelect) or the  *)
(* pair processing/procFile (processFile); such a record carries the       *)
(* values the function closed over when it was called, because a running   *)
(* async function keeps the bindings of the render that created it.        *)
(* Display-only cells (stats, hoveredChunk, selectedChunk, generatedSQL,   *)
(* previewLines, dbStats) influence no control flow and are left out.      *)
(***************************************************************************)
EXTENDS Integers, Sequences, FiniteSets, TLC

\* ---------------------------------------------------------------- bounds
\* Total number of bulk-insert requests a behaviour may issue.
MaxSends == 3
\* Total number of file selections a behaviour may make.
MaxSelects == 2

\* ------------------------------------------------------------- sentinels
\* JavaScript null for object-valued cells.
Null == [null |-> TRUE]
\* JavaScript undefined for numeric fields.
Undef == 0 - 1
\* JavaScript NaN and Infinity, as produced by Math.ceil(n / 0).
NaN == 0 - 2
Infinity == 0 - 3

Min(a, b) == IF a <= b THEN a ELSE b

\* a <= b for a finite a, with b possibly NaN or Infinity.
LessEq(a, b) == IF b = NaN THEN FALSE ELSE IF b = Infinity THEN TRUE ELSE a <= b

\* a < b for a finite a, with b possibly NaN or Infinity.
LessThan(a, b) == IF b = NaN THEN FALSE ELSE IF b = Infinity THEN TRUE ELSE a < b

\* a + b over the numbers extended with NaN and Infinity.
Plus(a, b) ==
  IF a = NaN \/ b = NaN THEN NaN
  ELSE IF a = Infinity \/ b = Infinity THEN Infinity
  ELSE a + b

\* Math.ceil(n / s) for n >= 0, s >= 0.
CeilDiv(n, s) ==
  IF s = 0 THEN (IF n = 0 THEN NaN ELSE Infinity)
  ELSE (n + s - 1) \div s

\* ------------------------------------------------------------ input files
\* The files the operator can select.  Parsing is abstracted to its result:
\* the sizes of the four prepared collections (dictionary ids are 1..n).
Files == {"empty", "data"}

\* Result of pass 2 (processFile) on a file: the PreparedImportData.
PreparedOf(f) ==
  CASE f = "empty" -> [formTypes |-> 0, extensions |-> 0, companies |-> 0, filings |-> 0]
    [] OTHER       -> [formTypes |-> 1, extensions |-> 1, companies |-> 1, filings |-> 501]

\* Result of pass 1 (handleFileSelect): number of data rows.
RowCountOf(f) == PreparedOf(f).filings

\* -------------------------------------------------------- chunk planning
\* Line 472: companyChunks.
CompanyChunks(p, size) == CeilDiv(p.companies, size)

\* Line 473: filingChunks.
FilingChunks(p, size) == CeilDiv(p.filings, size)

\* Line 474 / 576: totalChunks = 1 + companyChunks + filingChunks.
TotalChunks(p, size) == Plus(1, Plus(CompanyChunks(p, size), FilingChunks(p, size)))

\* Array.prototype.slice(start, start + size).length on a collection of n.
SliceLen(n, start, size) == IF start >= n THEN 0 ELSE Min(size, n - start)

\* Chunk-size presets offered while pending (lines 1121-1128).
ChunkOptions(p) ==
  LET totalRows == p.filings + p.companies IN
  IF totalRows >= 100000 THEN {5000, 10000, 20000, 50000, 100000, totalRows}
  ELSE IF totalRows >= 50000 THEN {5000, 10000, 20000, 50000, totalRows}
  ELSE IF totalRows >= 10000 THEN {1000, 5000, 10000, totalRows}
  ELSE {500, 1000, 5000, totalRows}

\* Math.round((c / t) * 100) for finite c, t >= 1 or t = Infinity.
Progress(c, t) == IF t = Infinity THEN 0 ELSE (200 * c + t) \div (2 * t)

\* ------------------------------------------------------------------ state
VARIABLES
  file,            \* useState file: "" (null) or a member of Files
  fileRowCount,    \* useState fileRowCount: Undef (null) or a count
  counting,        \* useState counting
  processing,      \* useState processing
  error,           \* useState error: "" (null) or a message
  importJob,       \* useState importJob (NoJob when null)
  preparedImport,  \* useState preparedImport (Null or a PreparedImportData)
  uploadAbortRef,  \* useRef uploadAbortRef.current
  chunkSize,       \* useState chunkSize
  startChunk,      \* useState startChunk
  autoUpload,      \* useState autoUpload
  idMappings,      \* useState idMappings (Null or the two id maps)
  uploadedCounts,  \* useState uploadedCounts
  counters,        \* handleFileSelect calls suspended in pass 1 (set of files)
  procFile,        \* file closed over by the running processFile ("" if none)
  loops,           \* runChunkedUpload calls in progress (sequence of records)
  crashed,         \* a render threw: the component tree is unmounted
  selects,         \* history: number of file selections made
  sends,           \* history: number of bulk-insert requests issued
  maxSent,         \* history: highest chunk number requested for the current prepared data
  setupAcked,      \* history: a chunk 1 response arrived for the current prepared data
  lastRun,         \* history: summary of the driver loop that ended last
  setupResp,       \* history: the maps of the latest chunk 1 response for the current data
  reported,        \* history: sum of the inserted counts reported since uploadedCounts was reset
  failedRuns,      \* history (FileSpec): files a pass has thrown on since they were last selected
  parse,           \* the two passes over one file (ParseSpec); Idle elsewhere
  plan             \* a walk over the chunks of one prepared data set (PlanSpec); Idle elsewhere

vars == <<file, fileRowCount, counting, processing, error, importJob,
          preparedImport, uploadAbortRef, chunkSize, startChunk, autoUpload,
          idMappings, uploadedCounts, counters, procFile, loops, crashed,
          selects, sends, maxSent, setupAcked, lastRun, setupResp, reported,
          failedRuns, parse, plan>>

\* The cells of the component, without parse and plan.
driverVars == <<file, fileRowCount, counting, processing, error, importJob,
                preparedImport, uploadAbortRef, chunkSize, startChunk, autoUpload,
                idMappings, uploadedCounts, counters, procFile, loops, crashed,
                selects, sends, maxSent, setupAcked, lastRun, setupResp, reported,
                failedRuns>>


\* importJob === null.
NoJob == [status |-> "none", jobId |-> "", totalChunks |-> Undef,
          currentChunk |-> Undef, linesImported |-> Undef,
          error |-> "", progress |-> Undef]

\* Initial value of uploadedCounts (line 89) and its reset value.
ZeroCounts == [formTypes |-> 0, extensions |-> 0, companies |-> 0, filings |-> 0]

\* lastRun before any driver loop has ended.
NoRun == [ended |-> FALSE, fromChunk |-> 0, startedIn |-> "", prevChunk |-> 0,
          autoUpload |-> TRUE, totalChunks |-> Undef, chunk |-> 0, sent |-> <<>>,
          stopped |-> FALSE, stopPc |-> "", stopChunk |-> 0, stopAt |-> 0,
          outcome |-> ""]

\* setupResp before any chunk 1 response: no maps.
NoResponse == << <<>>, <<>> >>

\* Value of failedRuns in a specification that keeps no record of failed passes.
NotTracked == [on |-> FALSE, files |-> {}]

\* Value of parse and plan in a specification that does not exercise them.
Idle == [phase |-> "idle"]

\* The component after construction: the initial values of its cells.
DriverInit ==
  /\ file = ""
  /\ fileRowCount = Undef
  /\ counting = FALSE
  /\ processing = FALSE
  /\ error = ""
  /\ importJob = NoJob
  /\ preparedImport = Null
  /\ uploadAbortRef = FALSE
  /\ chunkSize = 5000
  /\ startChunk = 0
  /\ autoUpload = TRUE
  /\ idMappings = Null
  /\ uploadedCounts = ZeroCounts
  /\ counters = {}
  /\ procFile = ""
  /\ loops = <<>>
  /\ crashed = FALSE
  /\ selects = 0
  /\ sends = 0
  /\ maxSent = 0
  /\ setupAcked = FALSE
  /\ lastRun = NoRun
  /\ setupResp = NoResponse
  /\ reported = 0

Init ==
  /\ DriverInit
  /\ failedRuns = NotTracked
  /\ parse = Idle
  /\ plan = Idle

\* ---------------------------------------------------------- file pipeline
\* useEffect of lines 97-101, evaluated on the state after an update of its
\* dependencies fileRowCount and counting.
AutoProcess(f, rc, cnt) ==
  /\ (rc # fileRowCount \/ cnt # counting)
  /\ f # "" /\ rc # Undef /\ ~cnt /\ ~processing /\ preparedImport = Null

\* handleFileSelect up to its first await (lines 175-196).
HandleFileSelect(f) ==
  /\ ~crashed
  /\ f \notin counters
  /\ selects < MaxSelects
  /\ selects' = selects + 1
  /\ file' = f
  /\ error' = ""
  /\ fileRowCount' = Undef
  /\ counting' = TRUE
  /\ counters' = counters \cup {f}
  /\ failedRuns' = IF failedRuns.on THEN [failedRuns EXCEPT !.files = @ \ {f}] ELSE failedRuns
  /\ UNCHANGED <<parse, plan, setupResp, reported>>
  /\ UNCHANGED <<processing, procFile, importJob, preparedImport, uploadAbortRef,
                 chunkSize, startChunk, autoUpload, idMappings, uploadedCounts,
                 loops, crashed, sends, maxSent, setupAcked, lastRun>>

\* Pass 1 ran to the end of the stream (lines 223-233); the effect then may
\* start processFile, which runs to its first await (lines 305-349).
CountDone(f) ==
  /\ ~crashed
  /\ f \in counters
  /\ counters' = counters \ {f}
  /\ fileRowCount' = RowCountOf(f)
  /\ counting' = FALSE
  /\ IF AutoProcess(file, RowCountOf(f), FALSE)
       THEN processing' = TRUE /\ procFile' = file /\ error' = ""
       ELSE UNCHANGED <<processing, procFile, error>>
  /\ UNCHANGED <<failedRuns, parse, plan, setupResp, reported>>
  /\ UNCHANGED <<selects, file, importJob, preparedImport, uploadAbortRef,
                 chunkSize, startChunk, autoUpload, idMappings, uploadedCounts,
                 loops, crashed, sends, maxSent, setupAcked, lastRun>>

\* Pass 1 threw while reading or decompressing (lines 229-233).
CountFail(f) ==
  /\ ~crashed
  /\ f \in counters
  /\ counters' = counters \ {f}
  /\ counting' = FALSE
  /\ IF AutoProcess(file, fileRowCount, FALSE)
       THEN processing' = TRUE /\ procFile' = file /\ error' = ""
       ELSE error' = "Failed to count rows" /\ UNCHANGED <<processing, procFile>>
  /\ failedRuns' = IF failedRuns.on THEN [failedRuns EXCEPT !.files = @ \cup {f}]
                                    ELSE failedRuns
  /\ UNCHANGED <<parse, plan, setupResp, reported>>
  /\ UNCHANGED <<selects, file, fileRowCount, importJob, preparedImport, uploadAbortRef,
                 chunkSize, startChunk, autoUpload, idMappings, uploadedCounts,
                 loops, crashed, sends, maxSent, setupAcked, lastRun>>

\* The pending panel renders Array.from({ length: totalChunks }) (line 1256),
\* which throws a RangeError for an infinite length; no error boundary exists.
PendingRenderThrows(p, size) == TotalChunks(p, size) = Infinity

\* Pass 2 ran to the end (lines 427-454, 461-463).
ProcessDone ==
  /\ ~crashed
  /\ processing /\ procFile # ""
  /\ preparedImport' = PreparedOf(procFile)
  /\ importJob' = [NoJob EXCEPT !.status = "pending", !.currentChunk = 0]
  /\ processing' = FALSE
  /\ procFile' = ""
  /\ crashed' = PendingRenderThrows(PreparedOf(procFile), chunkSize)
  /\ maxSent' = 0
  /\ setupAcked' = FALSE
  /\ lastRun' = NoRun
  /\ setupResp' = NoResponse
  /\ UNCHANGED <<failedRuns, parse, plan, reported>>
  /\ UNCHANGED <<selects, file, fileRowCount, counting, error, counters, uploadAbortRef,
                 chunkSize, startChunk, autoUpload, idMappings, uploadedCounts,
                 loops, sends>>

\* Pass 2 threw while reading or decompressing (lines 456-463).
ProcessFail ==
  /\ ~crashed
  /\ processing /\ procFile # ""
  /\ error' = "Failed to process file"
  /\ processing' = FALSE
  /\ procFile' = ""
  /\ failedRuns' = IF failedRuns.on
                    THEN [failedRuns EXCEPT !.files = @ \cup {procFile}]
                    ELSE failedRuns
  /\ UNCHANGED <<parse, plan, setupResp, reported>>
  /\ UNCHANGED <<selects, file, fileRowCount, counting, counters, importJob, preparedImport,
                 uploadAbortRef, chunkSize, startChunk, autoUpload, idMappings,
                 uploadedCounts, loops, crashed, sends, maxSent, setupAcked, lastRun>>

\* ---------------------------------------------------------- upload driver
StoppedByUser == "Upload stopped by user"
NoMappings == "ID mappings not available - run chunk 1 first"
ServerError == "Failed to upload chunk"
TokenError == "getToken failed"

\* Which branch of uploadSingleChunk a chunk number takes (lines 477, 513, 532),
\* for the prepared data p and chunk size the call closed over.
ChunkKind(chunkNum, p, size) ==
  IF chunkNum = 1 THEN "setup"
  ELSE IF LessEq(chunkNum, Plus(1, CompanyChunks(p, size))) THEN "company"
  ELSE "filing"

\* chunk.length of the slice a company or filing chunk carries (lines 515-517,
\* 535-537).
ChunkLen(chunkNum, p, size) ==
  IF ChunkKind(chunkNum, p, size) = "company"
    THEN SliceLen(p.companies, (chunkNum - 2) * size, size)
    ELSE SliceLen(p.filings, (chunkNum - 2 - CompanyChunks(p, size)) * size, size)

\* Server ids a chunk 1 response may assign to a dictionary code.
ServerIds == {0, 7}

\* The formTypeMap / extensionMap a chunk 1 response may carry for a local
\* dictionary with ids 1..n: any subset of the codes, each with a server id.
ServerMaps(n) == UNION {[d -> ServerIds] : d \in SUBSET (1..n)}

\* The chunk 1 responses the model enumerates, as <<formTypeMap, extensionMap>>:
\* every form-type map, with an extension map that is complete and non-zero,
\* and the response that carries no maps at all.
SetupResponses(p) ==
  {<<fm, [e \in 1..p.extensions |-> 7]>> : fm \in ServerMaps(p.formTypes)}
    \cup {<< <<>>, <<>> >>}

\* Lines 498-505: the local-to-server map keeps an entry only for a code whose
\* server id is truthy.
BuildIdMap(n, serverMap) ==
  [id \in {i \in (1..n) \cap DOMAIN serverMap : serverMap[i] # 0} |-> serverMap[id]]

\* Lines 539-540: idMappings.formTypeIdMap[id] || id, the id a filing carries in
\* the outgoing payload.
RemapId(map, id) == IF id \in DOMAIN map /\ map[id] # 0 THEN map[id] ELSE id

\* Values of data.inserted a filing response may carry (Undef: field absent).
InsertedChoices == {Undef, 0, 7}

\* The count a filing response reports: data.inserted, and the slice length the
\* client is told to assume when the response carries no inserted field.
ReportedOf(ins, len) == IF ins = Undef THEN len ELSE ins

\* Line 552: data.inserted || chunk.length.
InsertedOf(ins, len) == IF ins = Undef \/ ins = 0 THEN len ELSE ins

\* Summary of a driver loop at the moment it ends (history only).
RunSummary(l, outcome) ==
  [ended |-> TRUE, fromChunk |-> l.fromChunk, startedIn |-> l.startedIn,
   prevChunk |-> l.prevChunk, autoUpload |-> l.autoUpload,
   totalChunks |-> l.totalChunks, chunk |-> l.currentChunkNum, sent |-> l.sent,
   stopped |-> l.stopped, stopPc |-> l.stopPc, stopChunk |-> l.stopChunk,
   stopAt |-> l.stopAt, outcome |-> outcome]

\* The sequence loops without its i-th element.
Without(seq, i) == SubSeq(seq, 1, i - 1) \o SubSeq(seq, i + 1, Len(seq))

\* Mutant of NextChunkNum: the cursor is not advanced.
NextChunkNumStuck(cur) == cur

\* Line 631: currentChunkNum++.
NextChunkNum(cur) == cur + 1

\* Mutant of MappingsMissing: the guard of line 534 is dropped.
MappingsMissingNever(l) == FALSE

\* Line 534: a filing chunk needs the idMappings the call closed over.
MappingsMissing(l) ==
  /\ ChunkKind(l.currentChunkNum, l.preparedImport, l.chunkSize) = "filing"
  /\ l.idMappings = Null

\* Guard of the while loop, line 592.
LoopGuard(l) == LessEq(l.currentChunkNum, l.totalChunks)

\* Mutant of AbortCheck: the flag is not consulted.
AbortCheckIgnored(abort) == FALSE

\* Abort check at the top of an iteration, lines 593-595.
AbortCheck(abort) == abort

\* Mutant of FailJob: the error is recorded but the status is left as it was.
FailJobKeepsRunning(job, msg) == [job EXCEPT !.error = msg]

\* Mutant of FailJob: the catch block also clears the imported total.
FailJobDropsProgress(job, msg) ==
  [job EXCEPT !.status = "failed", !.error = msg, !.linesImported = 0]

\* Catch block, lines 648-655.
FailJob(job, msg) == [job EXCEPT !.status = "failed", !.error = msg]

\* One pass through the top of the while loop for loop record l, from the loop
\* guard to the await of getToken inside uploadSingleChunk (lines 592-605,
\* 467-471): the importJob that results from job.
IterJob(l, job, abort) ==
  IF ~LoopGuard(l) THEN job
  ELSE IF AbortCheck(abort) THEN FailJob(job, StoppedByUser)
  ELSE [job EXCEPT !.currentChunk = l.currentChunkNum, !.status = "running",
                   !.progress = Progress(l.currentChunkNum, l.totalChunks)]

\* How that pass ends the loop: "" when the loop goes on to getToken.
IterEnd(l, abort) ==
  IF ~LoopGuard(l) THEN "fellthrough"
  ELSE IF AbortCheck(abort) THEN "stopped"
  ELSE ""

\* runChunkedUpload(fromChunk) from its call to its first await (lines 565-605).
RunChunkedUpload(fromChunk) ==
  /\ preparedImport # Null
  /\ LET total == TotalChunks(preparedImport, chunkSize)
         cur == IF fromChunk > 0 THEN fromChunk ELSE 1
         inserted == IF importJob.linesImported = Undef THEN 0 ELSE importJob.linesImported
         job == [importJob EXCEPT !.jobId = "chunked", !.status = "running",
                                  !.totalChunks = total, !.currentChunk = cur,
                                  !.linesImported = inserted]
         l == [pc |-> "token", currentChunkNum |-> cur, totalInserted |-> inserted,
               totalChunks |-> total, preparedImport |-> preparedImport,
               idMappings |-> idMappings, chunkSize |-> chunkSize,
               autoUpload |-> autoUpload, fromChunk |-> fromChunk,
               startedIn |-> importJob.status, prevChunk |-> importJob.currentChunk,
               sent |-> <<>>, stopped |-> FALSE, stopPc |-> "", stopChunk |-> 0,
               stopAt |-> 0]
     IN /\ uploadAbortRef' = FALSE
        /\ uploadedCounts' = IF fromChunk <= 1 THEN ZeroCounts ELSE uploadedCounts
        /\ reported' = IF fromChunk <= 1 THEN 0 ELSE reported
        /\ importJob' = IterJob(l, job, FALSE)
        /\ IF IterEnd(l, FALSE) = ""
             THEN loops' = Append(loops, l) /\ lastRun' = NoRun
             ELSE UNCHANGED loops /\ lastRun' = RunSummary(l, IterEnd(l, FALSE))
  /\ UNCHANGED <<failedRuns, parse, plan, setupResp>>
  /\ UNCHANGED <<selects, file, fileRowCount, counting, processing, error, counters, procFile,
                 preparedImport, chunkSize, startChunk, autoUpload, idMappings,
                 crashed, sends, maxSent, setupAcked>>

\* Mutant of BeginUpload: the button is also offered while running.
BeginUploadWhileRunning ==
  /\ ~crashed
  /\ importJob.status \in {"pending", "running"}
  /\ RunChunkedUpload(startChunk)

\* Begin Upload / Resume from Chunk button, rendered in status pending
\* (lines 1339-1348).
BeginUpload ==
  /\ ~crashed
  /\ importJob.status = "pending"
  /\ RunChunkedUpload(startChunk)

\* Next Chunk button, rendered in status paused (lines 1358-1366).
NextChunk ==
  /\ ~crashed
  /\ importJob.status = "paused"
  /\ RunChunkedUpload(startChunk)

\* getToken resolved (line 471): uploadSingleChunk either issues the fetch of
\* its branch or, for a filing chunk without idMappings, throws (line 534).
TokenOk(i) ==
  /\ ~crashed
  /\ i \in DOMAIN loops
  /\ loops[i].pc = "token"
  /\ LET l == loops[i]
     IN IF MappingsMissing(l)
          THEN /\ importJob' = FailJob(importJob, NoMappings)
               /\ loops' = Without(loops, i)
               /\ lastRun' = RunSummary(l, "nomappings")
               /\ UNCHANGED <<sends, maxSent>>
          ELSE /\ sends < MaxSends
               /\ loops' = [loops EXCEPT ![i].pc = "inflight",
                                         ![i].sent = Append(l.sent, l.currentChunkNum)]
               /\ sends' = sends + 1
               /\ maxSent' = IF l.currentChunkNum > maxSent THEN l.currentChunkNum ELSE maxSent
               /\ UNCHANGED <<importJob, lastRun>>
  /\ UNCHANGED <<failedRuns, parse, plan, setupResp, reported>>
  /\ UNCHANGED <<selects, file, fileRowCount, counting, processing, error, counters, procFile,
                 preparedImport, uploadAbortRef, chunkSize, startChunk, autoUpload,
                 idMappings, uploadedCounts, crashed, setupAcked>>

\* getToken rejected: the exception reaches the catch of runChunkedUpload.
TokenFail(i) ==
  /\ ~crashed
  /\ i \in DOMAIN loops
  /\ loops[i].pc = "token"
  /\ importJob' = FailJob(importJob, TokenError)
  /\ loops' = Without(loops, i)
  /\ lastRun' = RunSummary(loops[i], "netfail")
  /\ UNCHANGED <<failedRuns, parse, plan, setupResp, reported>>
  /\ UNCHANGED <<selects, file, fileRowCount, counting, processing, error, counters, procFile,
                 preparedImport, uploadAbortRef, chunkSize, startChunk, autoUpload,
                 idMappings, uploadedCounts, crashed, sends, maxSent, setupAcked>>

\* fetch rejected, or the response was not ok (lines 489-492, 523-526, 547-550).
ResponseFail(i) ==
  /\ ~crashed
  /\ i \in DOMAIN loops
  /\ loops[i].pc = "inflight"
  /\ importJob' = FailJob(importJob, ServerError)
  /\ loops' = Without(loops, i)
  /\ lastRun' = RunSummary(loops[i], "netfail")
  /\ UNCHANGED <<failedRuns, parse, plan, setupResp, reported>>
  /\ UNCHANGED <<selects, file, fileRowCount, counting, processing, error, counters, procFile,
                 preparedImport, uploadAbortRef, chunkSize, startChunk, autoUpload,
                 idMappings, uploadedCounts, crashed, sends, maxSent, setupAcked>>

\* uploadedCounts after a successful response (lines 507-511, 527-530, 553-556).
CountsAfter(counts, kind, fm, em, len, inserted) ==
  CASE kind = "setup" ->
         [counts EXCEPT !.formTypes = Cardinality(DOMAIN fm),
                        !.extensions = Cardinality(DOMAIN em)]
    [] kind = "company" -> [counts EXCEPT !.companies = @ + len]
    [] OTHER -> [counts EXCEPT !.filings = @ + inserted]

\* Lines 498-506: the IdRemapping built from a chunk 1 response.
MappingsFrom(p, fm, em) ==
  [formTypeIdMap |-> BuildIdMap(p.formTypes, fm), extIdMap |-> BuildIdMap(p.extensions, em)]

\* Mutant of MappingsAfter: every successful response rebuilds the IdRemapping.
MappingsAfterEveryChunk(kind, p, fm, em, old) == MappingsFrom(p, fm, em)

\* idMappings after a successful response with a further chunk to come: only the
\* chunk 1 branch calls setIdMappings (line 506).
MappingsAfter(kind, p, fm, em, old) ==
  IF kind = "setup" THEN MappingsFrom(p, fm, em) ELSE old

\* Lines 616-623: the importJob of a finished upload.
CompletedJob(total, inserted) ==
  [status |-> "completed", jobId |-> "chunked", totalChunks |-> total,
   currentChunk |-> total, linesImported |-> inserted, error |-> "", progress |-> 100]

\* Mutant of PausesAfter: manual mode is ignored.
PausesAfterNever(l) == FALSE

\* Line 634: in manual mode the loop pauses when a further chunk remains.
PausesAfter(l) == ~l.autoUpload /\ LessEq(NextChunkNum(l.currentChunkNum), l.totalChunks)

\* A successful response arrived: the rest of uploadSingleChunk and of the loop
\* body up to the next await or return (lines 493-512, 527-531, 551-557, 606-646).
ResponseOk(i) ==
  /\ ~crashed
  /\ i \in DOMAIN loops
  /\ loops[i].pc = "inflight"
  /\ LET l == loops[i]
         p == l.preparedImport
         cur == l.currentChunkNum
         kind == ChunkKind(cur, p, l.chunkSize)
         len == ChunkLen(cur, p, l.chunkSize)
         hasMore == LessThan(cur, TotalChunks(p, l.chunkSize))
     IN \E resp \in (IF kind = "setup" THEN SetupResponses(p) ELSE {<< <<>>, <<>> >>}),
           ins \in (IF kind = "filing" THEN InsertedChoices ELSE {Undef}) :
          LET fm == resp[1]
              em == resp[2]
              inserted == IF kind = "filing" THEN InsertedOf(ins, len) ELSE 0
              totalInserted == l.totalInserted + inserted
          IN /\ uploadedCounts' = CountsAfter(uploadedCounts, kind, fm, em, len, inserted)
             /\ setupAcked' = (setupAcked \/ kind = "setup")
             /\ setupResp' = IF kind = "setup" THEN resp ELSE setupResp
             /\ reported' = IF kind = "filing" THEN reported + ReportedOf(ins, len)
                                               ELSE reported
             /\ IF ~hasMore
                  THEN /\ importJob' = CompletedJob(l.totalChunks, totalInserted)
                       /\ preparedImport' = Null
                       /\ idMappings' = Null
                       /\ loops' = Without(loops, i)
                       /\ lastRun' = RunSummary(l, "completed")
                       /\ UNCHANGED startChunk
                  ELSE /\ idMappings' = MappingsAfter(kind, p, fm, em, idMappings)
                       /\ UNCHANGED preparedImport
                       /\ IF PausesAfter(l)
                            THEN /\ importJob' = [importJob EXCEPT
                                                    !.status = "paused",
                                                    !.currentChunk = NextChunkNum(cur) - 1,
                                                    !.linesImported = totalInserted]
                                 /\ startChunk' = NextChunkNum(cur)
                                 /\ loops' = Without(loops, i)
                                 /\ lastRun' = RunSummary(l, "paused")
                            ELSE /\ importJob' = [importJob EXCEPT
                                                    !.linesImported = totalInserted]
                                 /\ loops' = [loops EXCEPT
                                                ![i].pc = "delay",
                                                ![i].currentChunkNum = NextChunkNum(cur),
                                                ![i].totalInserted = totalInserted]
                                 /\ UNCHANGED <<startChunk, lastRun>>
  /\ UNCHANGED <<failedRuns, parse, plan>>
  /\ UNCHANGED <<selects, file, fileRowCount, counting, processing, error, counters, procFile,
                 uploadAbortRef, chunkSize, autoUpload, crashed, sends, maxSent>>

\* The 10 ms timer of line 646 fired: next pass through the top of the loop.
DelayDone(i) ==
  /\ ~crashed
  /\ i \in DOMAIN loops
  /\ loops[i].pc = "delay"
  /\ LET l == loops[i]
     IN /\ importJob' = IterJob(l, importJob, uploadAbortRef)
        /\ IF IterEnd(l, uploadAbortRef) = ""
             THEN loops' = [loops EXCEPT ![i].pc = "token"] /\ UNCHANGED lastRun
             ELSE loops' = Without(loops, i)
                  /\ lastRun' = RunSummary(l, IterEnd(l, uploadAbortRef))
  /\ UNCHANGED <<failedRuns, parse, plan, setupResp, reported>>
  /\ UNCHANGED <<selects, file, fileRowCount, counting, processing, error, counters, procFile,
                 preparedImport, uploadAbortRef, chunkSize, startChunk, autoUpload,
                 idMappings, uploadedCounts, crashed, sends, maxSent, setupAcked>>

\* Stop Upload button, rendered in status running (lines 1349-1357, 659-662).
StopUpload ==
  /\ ~crashed
  /\ importJob.status = "running"
  /\ uploadAbortRef' = TRUE
  /\ loops' = [i \in DOMAIN loops |->
                 IF loops[i].stopped THEN loops[i]
                 ELSE [loops[i] EXCEPT
                         !.stopped = TRUE,
                         !.stopPc = loops[i].pc,
                         !.stopChunk = loops[i].currentChunkNum,
                         !.stopAt = Len(loops[i].sent)
                                      + (IF loops[i].pc = "token" THEN 1 ELSE 0)]]
  /\ UNCHANGED <<failedRuns, parse, plan, setupResp, reported>>
  /\ UNCHANGED <<selects, file, fileRowCount, counting, processing, error, counters, procFile,
                 importJob, preparedImport, chunkSize, startChunk, autoUpload,
                 idMappings, uploadedCounts, crashed, sends, maxSent, setupAcked, lastRun>>

\* Mutant of CancelImport: the button is also rendered while running.
CancelImportWhileRunning ==
  /\ ~crashed
  /\ importJob.status \in {"pending", "failed", "completed", "paused", "running"}
  /\ importJob' = NoJob
  /\ preparedImport' = Null
  /\ idMappings' = Null
  /\ startChunk' = 0
  /\ uploadedCounts' = ZeroCounts
  /\ maxSent' = 0
  /\ setupAcked' = FALSE
  /\ setupResp' = NoResponse
  /\ reported' = 0
  /\ lastRun' = [NoRun EXCEPT !.outcome = "cancelled", !.startedIn = importJob.status]
  /\ UNCHANGED <<failedRuns, parse, plan>>
  /\ UNCHANGED <<selects, file, fileRowCount, counting, processing, error, counters, procFile,
                 uploadAbortRef, chunkSize, autoUpload, loops, crashed, sends>>

\* Cancel / Clear button, rendered in every status but running
\* (lines 1367-1375, 665-673).
CancelImport ==
  /\ ~crashed
  /\ importJob.status \in {"pending", "failed", "completed", "paused"}
  /\ importJob' = NoJob
  /\ preparedImport' = Null
  /\ idMappings' = Null
  /\ startChunk' = 0
  /\ uploadedCounts' = ZeroCounts
  /\ maxSent' = 0
  /\ setupAcked' = FALSE
  /\ setupResp' = NoResponse
  /\ reported' = 0
  /\ lastRun' = [NoRun EXCEPT !.outcome = "cancelled", !.startedIn = importJob.status]
  /\ UNCHANGED <<failedRuns, parse, plan>>
  /\ UNCHANGED <<selects, file, fileRowCount, counting, processing, error, counters, procFile,
                 uploadAbortRef, chunkSize, autoUpload, loops, crashed, sends>>

\* Number of segments Array.from({ length: t }) renders: none for NaN, and the
\* bar is not rendered for an undefined totalChunks.
BarLength(t) == IF t < 0 THEN 0 ELSE t

\* Click on a segment of the chunk bar while failed or paused (lines 1005-1010;
\* in the other statuses the click only moves the display selection).
ChunkBarClick(chunkNum) ==
  /\ ~crashed
  /\ importJob.status \in {"failed", "paused"}
  /\ preparedImport # Null
  /\ chunkNum \in 1..BarLength(importJob.totalChunks)
  /\ startChunk' = chunkNum
  /\ UNCHANGED <<failedRuns, parse, plan, setupResp, reported>>
  /\ UNCHANGED <<selects, file, fileRowCount, counting, processing, error, counters, procFile,
                 importJob, preparedImport, uploadAbortRef, chunkSize, autoUpload,
                 idMappings, uploadedCounts, loops, crashed, sends, maxSent, setupAcked,
                 lastRun>>

\* Number of segments of the pending chunk bar (lines 1129-1131, 1256).
PendingBarLength ==
  IF preparedImport = Null THEN 0
  ELSE BarLength(TotalChunks(preparedImport, chunkSize))

\* Click on a segment of the pending chunk bar (line 1274).
PendingChunkBarClick(chunkNum) ==
  /\ ~crashed
  /\ importJob.status = "pending"
  /\ preparedImport # Null
  /\ chunkNum \in 1..PendingBarLength
  /\ startChunk' = IF chunkNum = startChunk THEN 0 ELSE chunkNum
  /\ UNCHANGED <<failedRuns, parse, plan, setupResp, reported>>
  /\ UNCHANGED <<selects, file, fileRowCount, counting, processing, error, counters, procFile,
                 importJob, preparedImport, uploadAbortRef, chunkSize, autoUpload,
                 idMappings, uploadedCounts, loops, crashed, sends, maxSent, setupAcked,
                 lastRun>>

\* Chunk size preset button (line 1207).
SetChunkSize(size) ==
  /\ ~crashed
  /\ importJob.status = "pending"
  /\ preparedImport # Null
  /\ size \in ChunkOptions(preparedImport)
  /\ size # chunkSize
  /\ chunkSize' = size
  /\ crashed' = PendingRenderThrows(preparedImport, size)
  /\ UNCHANGED <<failedRuns, parse, plan, setupResp, reported>>
  /\ UNCHANGED <<selects, file, fileRowCount, counting, processing, error, counters, procFile,
                 importJob, preparedImport, uploadAbortRef, startChunk, autoUpload,
                 idMappings, uploadedCounts, loops, sends, maxSent, setupAcked, lastRun>>

\* Automatic / Manual toggle (line 1191).
ToggleAutoUpload ==
  /\ ~crashed
  /\ importJob.status = "pending"
  /\ preparedImport # Null
  /\ autoUpload' = ~autoUpload
  /\ UNCHANGED <<failedRuns, parse, plan, setupResp, reported>>
  /\ UNCHANGED <<selects, file, fileRowCount, counting, processing, error, counters, procFile,
                 importJob, preparedImport, uploadAbortRef, chunkSize, startChunk,
                 idMappings, uploadedCounts, loops, crashed, sends, maxSent, setupAcked,
                 lastRun>>

\* Every preset any prepared data set of the model offers.
AllChunkOptions == UNION {ChunkOptions(PreparedOf(f)) : f \in Files}

Next ==
  \/ \E f \in Files : HandleFileSelect(f)
  \/ \E f \in Files : CountDone(f)
  \/ \E f \in Files : CountFail(f)
  \/ ProcessDone
  \/ ProcessFail
  \/ BeginUpload
  \/ NextChunk
  \/ \E i \in DOMAIN loops : TokenOk(i)
  \/ \E i \in DOMAIN loops : TokenFail(i)
  \/ \E i \in DOMAIN loops : ResponseOk(i)
  \/ \E i \in DOMAIN loops : ResponseFail(i)
  \/ \E i \in DOMAIN loops : DelayDone(i)
  \/ StopUpload
  \/ CancelImport
  \/ \E c \in 1..BarLength(importJob.totalChunks) : ChunkBarClick(c)
  \/ \E c \in 1..PendingBarLength : PendingChunkBarClick(c)
  \/ \E size \in AllChunkOptions : SetChunkSize(size)
  \/ ToggleAutoUpload

Spec == Init /\ [][Next]_vars

\* The component with the record of failed passes kept: failedRuns holds the
\* files on which pass 1 or pass 2 has thrown since they were last selected.
FileInit ==
  /\ DriverInit
  /\ failedRuns = [on |-> TRUE, files |-> {}]
  /\ parse = Idle
  /\ plan = Idle

FileSpec == FileInit /\ [][Next]_vars

\* ---------------------------------------------------------- chunk contents
\* The request bodies of uploadSingleChunk, chunk by chunk, for one prepared
\* data set and one chunk size.  Records are named by their position in their
\* collection (1..n); dictionary entries by their local id.

\* Positions (1-based) of array.slice(start, start + size) in an array of n.
SliceOf(n, start, size) == {j \in 1..n : start < j /\ j <= start + size}

\* Mutant of ChunkBody: a slice starts one chunk too late.
ChunkBodyLateStart(chunkNum, p, size) ==
  CASE ChunkKind(chunkNum, p, size) = "setup" ->
         [formTypes |-> 1..p.formTypes, extensions |-> 1..p.extensions,
          companies |-> {}, filings |-> {}]
    [] ChunkKind(chunkNum, p, size) = "company" ->
         [formTypes |-> {}, extensions |-> {},
          companies |-> SliceOf(p.companies, (chunkNum - 1) * size, size),
          filings |-> {}]
    [] OTHER ->
         [formTypes |-> {}, extensions |-> {}, companies |-> {},
          filings |-> SliceOf(p.filings,
                              (chunkNum - 1 - CompanyChunks(p, size)) * size, size)]

\* The body of the request for chunk chunkNum (lines 482-487, 515-521, 535-545).
ChunkBody(chunkNum, p, size) ==
  CASE ChunkKind(chunkNum, p, size) = "setup" ->
         [formTypes |-> 1..p.formTypes, extensions |-> 1..p.extensions,
          companies |-> {}, filings |-> {}]
    [] ChunkKind(chunkNum, p, size) = "company" ->
         [formTypes |-> {}, extensions |-> {},
          companies |-> SliceOf(p.companies, (chunkNum - 2) * size, size),
          filings |-> {}]
    [] OTHER ->
         [formTypes |-> {}, extensions |-> {}, companies |-> {},
          filings |-> SliceOf(p.filings,
                              (chunkNum - 2 - CompanyChunks(p, size)) * size, size)]

\* Largest collection and largest chunk size PlanSpec draws.
MaxRecords == 4
MaxChunkSize == 3

\* The prepared data sets PlanSpec draws: a file with filings has at least one
\* company, one form type and one extension.
PlanInputs ==
  {[formTypes |-> d, extensions |-> d, companies |-> c, filings |-> f] :
     d \in 0..1, c \in 0..MaxRecords, f \in 0..MaxRecords}

\* A prepared data set and a chunk size are chosen; no chunk has been built.
PlanInit ==
  /\ DriverInit
  /\ failedRuns = NotTracked
  /\ parse = Idle
  /\ \E p \in PlanInputs, size \in 1..MaxChunkSize :
       plan = [phase |-> "walk", p |-> p, size |-> size, chunkNum |-> 1, bodies |-> <<>>]

\* The loop of runChunkedUpload started at chunk 1 (lines 592, 605, 613, 631),
\* reduced to the bodies it sends: one chunk per step, until hasMore is false.
PlanChunk ==
  /\ plan.phase = "walk"
  /\ LessEq(plan.chunkNum, TotalChunks(plan.p, plan.size))
  /\ plan' = [plan EXCEPT
                !.bodies = Append(@, ChunkBody(plan.chunkNum, plan.p, plan.size)),
                !.chunkNum = NextChunkNum(@),
                !.phase = IF LessThan(plan.chunkNum, TotalChunks(plan.p, plan.size))
                            THEN "walk" ELSE "done"]
  /\ UNCHANGED <<driverVars, parse>>

PlanNext == PlanChunk

PlanSpec == PlanInit /\ [][PlanNext]_vars

\* ------------------------------------------------------- the two passes
\* handleFileSelect (pass 1) and processFile (pass 2) over the text of one file.
\* A line is named by what the code tests on it; the text of the file is its
\* lines joined by newlines, with a final newline when `terminated`.

\* Longest file ParseSpec draws, in lines.
MaxLines == 3

\* A line that is not a data row: kind is "cik" (starts with 'CIK|'), "dashes"
\* (holds '---'), "blank" (empty) or "text" (anything else that does not start
\* with digits and a pipe).  dashes says whether the line holds '---'.
OtherLine(kind) ==
  [kind |-> kind, cik |-> 0, name |-> "", form |-> "", ext |-> "", fields |-> 1,
   pathOk |-> FALSE, dashes |-> (kind = "dashes")]

\* A line that starts with digits and a pipe: its CIK, company name, form type,
\* the number of pipe-separated fields, and whether the file name of its path
\* matches digits-digits-digits.ext (then with extension ext).
DataLine(cik, name, form, ext, fields, pathOk) ==
  [kind |-> "row", cik |-> cik, name |-> name, form |-> form, ext |-> ext,
   fields |-> fields, pathOk |-> pathOk, dashes |-> FALSE]

\* The number parseInt reads from a CIK of 22 digits that begins with 1: a
\* number of 1e21 or more.
HugeCik == 1000

\* The lines ParseSpec builds files from; the company name of one data row
\* holds '---', and one data row has a CIK of 22 digits.
Lines ==
  {DataLine(1, "A", "F1", "E1", 5, TRUE),
   DataLine(1, "B", "F2", "E2", 5, TRUE),
   DataLine(2, "C", "F2", "E1", 5, TRUE),
   [DataLine(4, "E---", "F1", "E2", 5, TRUE) EXCEPT !.dashes = TRUE],
   DataLine(HugeCik, "H", "F1", "E1", 5, TRUE),
   DataLine(3, "D", "F3", "", 4, FALSE),
   DataLine(3, "D", "F3", "E3", 5, FALSE),
   OtherLine("cik"), OtherLine("dashes"), OtherLine("blank"), OtherLine("text")}

\* line.startsWith('CIK|') || line.includes('---') || line.trim() === ''
\* (lines 206, 368).
IsHeaderLine(l) == l.kind \in {"cik", "blank"} \/ l.dashes

\* line.includes('|') && /^\d+\|/.test(line) (lines 209, 217, 371, 378).
IsDataRow(l) == l.kind = "row"

\* The files ParseSpec draws.  A file without a final newline does not end in
\* an empty line (that text is the file without the line, terminated).
FileInputs ==
  {f \in [lines : UNION {[1..n -> Lines] : n \in 0..MaxLines}, terminated : BOOLEAN] :
     /\ (f.terminated => Len(f.lines) >= 1)
     /\ ((~f.terminated /\ Len(f.lines) >= 1) => f.lines[Len(f.lines)].kind # "blank")}

\* Row limits of test mode (line 326): none, or one row.
RowLimits == {Infinity, 1}

\* How far the stream has been read: <<k, buf>>, k lines and their newlines
\* delivered, and buf the text after the last newline: "" (nothing), "part" (a
\* proper prefix of line k+1) or "whole" (all of the last line of a file
\* without a final newline).
ReadPositions(f) ==
  LET n == Len(f.lines) IN
    {<<k, "">> : k \in 0..(IF f.terminated \/ n = 0 THEN n ELSE n - 1)}
      \cup {<<k, "part">> : k \in {j \in 0..(n - 1) : f.lines[j + 1].kind # "blank"}}
      \cup (IF f.terminated \/ n = 0 THEN {} ELSE {<<n - 1, "whole">>})

\* Order of the read positions along the text.
Rank(pos) == 3 * pos[1] + (CASE pos[2] = "" -> 0 [] pos[2] = "part" -> 1 [] OTHER -> 2)

\* The position at which reader.read() reports done.
EndOfStream(f) ==
  IF f.terminated \/ Len(f.lines) = 0 THEN <<Len(f.lines), "">>
  ELSE <<Len(f.lines) - 1, "whole">>

\* Mutant of NextLine: the text kept from the read before is lost, and with it
\* the line it began.
NextLineDropsBuffer(st) == IF st.buffer = "part" THEN st.pos + 2 ELSE st.pos + 1

\* buffer += decode(value); lines = buffer.split('\n'); buffer = lines.pop()
\* (lines 199-201, 356-358): the text kept from the read before is the start
\* of the first line of this read, so the for loop begins at the line after
\* the last one it has looked at.
NextLine(st) == st.pos + 1

\* Locals of handleFileSelect at its first read (lines 191-193).
CountStart == [pos |-> 0, buffer |-> "", headerSkipped |-> FALSE, rowCount |-> 0,
               seen |-> 0]

\* Body of the for loop of pass 1 for one line (lines 203-220); seen counts the
\* lines the loop has looked at.
CountLine(st, l) ==
  LET t == [st EXCEPT !.seen = @ + 1] IN
  IF ~st.headerSkipped /\ IsHeaderLine(l) THEN t
  ELSE IF ~st.headerSkipped /\ ~IsDataRow(l) THEN t
  ELSE IF IsDataRow(l) THEN [t EXCEPT !.headerSkipped = TRUE, !.rowCount = @ + 1]
  ELSE t

\* The for loop of pass 1 over lines from..to of the file.
RECURSIVE CountLines(_, _, _, _)
CountLines(st, lines, from, to) ==
  IF from > to THEN st
  ELSE CountLines(CountLine(st, lines[from]), lines, from + 1, to)

\* Map.has(key) on a Map kept as the sequence of its entries in insertion order.
Has(map, key) == \E k \in DOMAIN map : map[k].key = key

\* Map.get(key) for a key the Map holds.
Get(map, key) == map[CHOOSE k \in DOMAIN map : map[k].key = key].value

\* Mutant of DictAdd: ids are numbered from 0.
DictAddFromZero(map, code) ==
  IF Has(map, code) THEN map ELSE Append(map, [key |-> code, value |-> Len(map)])

\* Lines 399-401, 405-407: a new code gets the id size + 1.
DictAdd(map, code) ==
  IF Has(map, code) THEN map ELSE Append(map, [key |-> code, value |-> Len(map) + 1])

\* Mutant of CompanyAdd: the name of the latest row replaces the stored one.
CompanyAddLastWins(map, cik, name) ==
  IF Has(map, cik)
    THEN [k \in DOMAIN map |-> IF map[k].key = cik THEN [key |-> cik, value |-> name]
                                                    ELSE map[k]]
    ELSE Append(map, [key |-> cik, value |-> name])

\* Lines 393-396: a CIK is stored with the name of the row that brings it first.
CompanyAdd(map, cik, name) ==
  IF Has(map, cik) THEN map ELSE Append(map, [key |-> cik, value |-> name])

\* Mutant of IsMalformed: the accession check of line 390 is missing.
IsMalformedShortOnly(l) == l.fields < 5

\* Lines 381 and 389-390 (parseAccession, lines 280-294): a data row with fewer
\* than 5 fields, or whose file name is not digits-digits-digits.ext.
IsMalformed(l) == l.fields < 5 \/ ~l.pathOk

\* Locals of processFile at its first read (lines 314-344).
ProcessStart == [pos |-> 0, buffer |-> "", headerSkipped |-> FALSE,
                 reachedLimit |-> FALSE, rowsProcessed |-> 0, formTypes |-> <<>>,
                 extensions |-> <<>>, companies |-> <<>>, filingsRows |-> <<>>,
                 seen |-> 0]

\* Lines 383-417 for a well-formed data row l, line number row of the file: the
\* filing row carries the CIK and the two local ids; row stands for its date
\* and accession fields.
EmitRow(st, l, row) ==
  LET formTypes == DictAdd(st.formTypes, l.form)
      extensions == DictAdd(st.extensions, l.ext)
  IN [st EXCEPT
        !.companies = CompanyAdd(@, l.cik, l.name),
        !.formTypes = formTypes,
        !.extensions = extensions,
        !.filingsRows = Append(@, [cik |-> l.cik,
                                   form_type_id |-> Get(formTypes, l.form),
                                   ext_id |-> Get(extensions, l.ext),
                                   row |-> row]),
        !.rowsProcessed = @ + 1]

\* Body of the for loop of pass 2 for one line (lines 360-424); once the row
\* limit is reached the loop is left and the later lines are not looked at.
ProcessLine(st, l, row, rowLimit) ==
  IF st.reachedLimit THEN st
  ELSE IF ~LessThan(st.rowsProcessed, rowLimit) THEN [st EXCEPT !.reachedLimit = TRUE]
  ELSE LET t == [st EXCEPT !.seen = @ + 1] IN
       IF ~st.headerSkipped /\ IsHeaderLine(l) THEN t
       ELSE IF ~IsDataRow(l) THEN t
       ELSE LET u == [t EXCEPT !.headerSkipped = TRUE] IN
            IF IsMalformed(l) THEN u ELSE EmitRow(u, l, row)

\* The for loop of pass 2 over lines from..to of the file.
RECURSIVE ProcessLines(_, _, _, _, _)
ProcessLines(st, lines, from, to, rowLimit) ==
  IF from > to THEN st
  ELSE ProcessLines(ProcessLine(st, lines[from], from, rowLimit), lines, from + 1, to,
                    rowLimit)

\* parseInt(`${n}`, 10) (lines 415, 436-443): a number is written into the
\* row text and read back.  A number of 1e21 or more is written in exponent
\* form ("1e+21") and parseInt reads its leading digit.
WrittenAndRead(n) == IF n >= HugeCik THEN 1 ELSE n

\* Lines 431-446: the PreparedImportData built from the locals of pass 2.
PreparedData(st) ==
  [formTypes |-> [k \in DOMAIN st.formTypes |->
                    [id |-> st.formTypes[k].value, code |-> st.formTypes[k].key]],
   extensions |-> [k \in DOMAIN st.extensions |->
                     [id |-> st.extensions[k].value, ext |-> st.extensions[k].key]],
   companies |-> [k \in DOMAIN st.companies |->
                    [cik |-> st.companies[k].key, name |-> st.companies[k].value]],
   filings |-> [i \in DOMAIN st.filingsRows |->
                  [cik |-> WrittenAndRead(st.filingsRows[i].cik),
                   form_type_id |-> WrittenAndRead(st.filingsRows[i].form_type_id),
                   ext_id |-> WrittenAndRead(st.filingsRows[i].ext_id),
                   row |-> st.filingsRows[i].row]]]

\* A file is selected (lines 175-193) in test mode or not: pass 1 is about to
\* read.
ParseInit ==
  /\ DriverInit
  /\ failedRuns = NotTracked
  /\ plan = Idle
  /\ \E f \in FileInputs, limit \in RowLimits :
       parse = [phase |-> "count", file |-> f, rowLimit |-> limit,
                count |-> CountStart, fileRowCount |-> Undef,
                proc |-> ProcessStart, prepared |-> Null, error |-> ""]

\* One reader.read() of pass 1 that delivers text up to position to, and the
\* loop body that follows it (lines 196-220).
CountRead(to) ==
  /\ parse.phase = "count"
  /\ to \in ReadPositions(parse.file)
  /\ Rank(to) > Rank(<<parse.count.pos, parse.count.buffer>>)
  /\ parse' = [parse EXCEPT
                 !.count = [CountLines(@, parse.file.lines, NextLine(@), to[1])
                              EXCEPT !.pos = to[1], !.buffer = to[2]]]
  /\ UNCHANGED <<driverVars, plan>>

\* reader.read() of pass 1 reports done: the remaining buffer is counted (lines
\* 223-226), the count is published (228, 232), and the effect of lines 97-101
\* starts processFile, which runs to its first read.
CountEnd ==
  /\ parse.phase = "count"
  /\ <<parse.count.pos, parse.count.buffer>> = EndOfStream(parse.file)
  /\ LET st == parse.count
         last == parse.file.lines[st.pos + 1]
         tail == st.buffer # "" /\ IsDataRow(last)
         rowCount == IF tail THEN st.rowCount + 1 ELSE st.rowCount
     IN parse' = [parse EXCEPT
                    !.count = [st EXCEPT !.rowCount = rowCount,
                                         !.seen = IF st.buffer # "" THEN @ + 1 ELSE @],
                    !.fileRowCount = rowCount,
                    !.phase = "parse"]
  /\ UNCHANGED <<driverVars, plan>>

\* A read of pass 1 throws (lines 229-233): no count is published and pass 2 is
\* not started.
CountReadFail ==
  /\ parse.phase = "count"
  /\ parse' = [parse EXCEPT !.phase = "countfailed", !.error = "Failed to count rows"]
  /\ UNCHANGED <<driverVars, plan>>

\* One reader.read() of pass 2 that delivers text up to position to, and the
\* loop body that follows it (lines 347-424).
ProcessRead(to) ==
  /\ parse.phase = "parse"
  /\ ~parse.proc.reachedLimit
  /\ to \in ReadPositions(parse.file)
  /\ Rank(to) > Rank(<<parse.proc.pos, parse.proc.buffer>>)
  /\ parse' = [parse EXCEPT
                 !.proc = [ProcessLines(@, parse.file.lines, NextLine(@), to[1],
                                        parse.rowLimit)
                             EXCEPT !.pos = to[1], !.buffer = to[2]]]
  /\ UNCHANGED <<driverVars, plan>>

\* The read loop of pass 2 ends, by the row limit (line 347) or because
\* reader.read() reports done (line 350), and the prepared data is published
\* (lines 427-454).
ProcessEnd ==
  /\ parse.phase = "parse"
  /\ \/ parse.proc.reachedLimit
     \/ <<parse.proc.pos, parse.proc.buffer>> = EndOfStream(parse.file)
  /\ parse' = [parse EXCEPT !.prepared = PreparedData(parse.proc), !.phase = "done"]
  /\ UNCHANGED <<driverVars, plan>>

\* A read of pass 2 throws (lines 456-463): no prepared data is published.
ProcessReadFail ==
  /\ parse.phase = "parse"
  /\ ~parse.proc.reachedLimit
  /\ parse' = [parse EXCEPT !.phase = "parsefailed", !.error = "Failed to process file"]
  /\ UNCHANGED <<driverVars, plan>>

\* Every read position of every file ParseSpec draws.
AllReadPositions == (0..MaxLines) \X {"", "part", "whole"}

ParseNext ==
  \/ \E to \in AllReadPositions : CountRead(to)
  \/ CountEnd
  \/ CountReadFail
  \/ \E to \in AllReadPositions : ProcessRead(to)
  \/ ProcessEnd
  \/ ProcessReadFail

ParseSpec == ParseInit /\ [][ParseNext]_vars

\* ------------------------------------------------------------ properties
\* First chunk a driver loop (or its summary) r sends: line 577.
FirstChunk(r) == IF r.fromChunk > 0 THEN r.fromChunk ELSE 1

\* seq is first, first + 1, first + 2, ...
Consecutive(seq, first) == \A k \in 1..Len(seq) : seq[k] = first + k - 1

\* Branch of uploadSingleChunk the loop record l is in.
KindOf(l) == ChunkKind(l.currentChunkNum, l.preparedImport, l.chunkSize)

\* Loops whose request is awaiting its response.
InFlight == {i \in DOMAIN loops : loops[i].pc = "inflight"}

\* C1: at most one bulk-insert request is in flight and at most one driver loop
\* is active in every reachable state, and a loop is active only in status
\* running (start and resume exist only in pending and paused).
C1_OneRequestInFlight ==
  /\ Cardinality(InFlight) <= 1
  /\ Len(loops) <= 1
  /\ (loops # <<>> => importJob.status = "running")

\* A loop has its second request in flight.
C1_Witness == \E i \in InFlight : Len(loops[i].sent) >= 2

\* C2 as claimed: over the whole upload of one prepared data set every request
\* carries a chunk number above every chunk number requested before.
C2_AscendingAcrossResumes ==
  [][\A i \in DOMAIN loops :
       (loops[i].pc = "token" /\ sends' = sends + 1)
         => loops[i].currentChunkNum > maxSent]_vars

\* C2 amended: within one invocation of the driver loop the chunk numbers sent
\* are consecutive and ascending from that invocation's start chunk.
C2_AscendingWithinRun ==
  /\ \A i \in DOMAIN loops : Consecutive(loops[i].sent, FirstChunk(loops[i]))
  /\ Consecutive(lastRun.sent, FirstChunk(lastRun))

\* One invocation has had two chunks acknowledged in a row.
C2_Witness == \E i \in DOMAIN loops : Len(loops[i].sent) >= 2 /\ loops[i].pc = "delay"

\* C3: a filing chunk is requested only when an IdRemapping built from a chunk 1
\* response for the current prepared data exists; a filing chunk attempted
\* without it sends nothing and the driver goes to failed.
C3_FilingNeedsMappings ==
  /\ [](\A i \in InFlight :
          KindOf(loops[i]) = "filing"
            => /\ idMappings # Null
               /\ loops[i].idMappings = idMappings
               /\ setupAcked
               /\ loops[i].preparedImport = preparedImport)
  /\ [][\A i \in DOMAIN loops :
          (/\ loops[i].pc = "token"
           /\ KindOf(loops[i]) = "filing"
           /\ loops[i].idMappings = Null
           /\ (i \notin DOMAIN loops' \/ loops'[i].pc # "token"))
            => (sends' = sends /\ importJob'.status = "failed")]_vars

\* A filing chunk is in flight.
C3_Witness == \E i \in InFlight : KindOf(loops[i]) = "filing"

\* C4 as claimed: an automatic upload begun at chunk 1, with no failed network
\* call and no stop request, ends completed having sent 1..totalChunks once each.
C4_AutoRunCompletes ==
  (/\ lastRun.ended
   /\ lastRun.autoUpload
   /\ lastRun.fromChunk <= 1
   /\ lastRun.totalChunks >= 1
   /\ lastRun.outcome # "netfail"
   /\ ~lastRun.stopped)
    => (/\ lastRun.outcome = "completed"
        /\ lastRun.sent = [k \in 1..lastRun.totalChunks |-> k])

\* C5: when the network call of chunk N fails the loop ends at once with status
\* failed, the error recorded and currentChunk = N, and nothing is requested
\* while the status is failed.
C5_FailureStopsLoop ==
  /\ [](lastRun.outcome = "netfail"
          => /\ importJob.status = "failed"
             /\ importJob.error \in {ServerError, TokenError}
             /\ importJob.currentChunk = lastRun.chunk
             /\ loops = <<>>)
  /\ [][importJob.status = "failed" => sends' = sends]_vars

\* The second chunk of a loop failed.
C5_Witness ==
  /\ lastRun.outcome = "netfail"
  /\ Len(lastRun.sent) >= 2
  /\ importJob.status = "failed"

C7_FailedCanResume ==
  importJob.status = "failed" => ENABLED (BeginUpload \/ NextChunk)

\* C8 as claimed: a manual-mode resume at the recorded next chunk N+1, whose
\* network calls succeed, sends exactly chunk N+1.
C8_ResumeSendsOneChunk ==
  (/\ lastRun.ended
   /\ ~lastRun.autoUpload
   /\ lastRun.startedIn = "paused"
   /\ lastRun.fromChunk = lastRun.prevChunk + 1
   /\ lastRun.outcome # "netfail")
    => lastRun.sent = <<lastRun.prevChunk + 1>>

\* C8 amended: in manual mode an invocation sends at most one chunk, its start
\* chunk; after chunk N < totalChunks succeeds the status is paused, the loop has
\* ended and startChunk = N+1; a resume at N+1 sends exactly chunk N+1 unless it
\* fails before sending (network failure, or a filing chunk without IdRemapping).
C8_ManualSendsAtMostOne ==
  /\ [](\A i \in DOMAIN loops :
          ~loops[i].autoUpload
            => Len(loops[i].sent) <= 1
               /\ Consecutive(loops[i].sent, FirstChunk(loops[i])))
  /\ []((lastRun.ended /\ ~lastRun.autoUpload) => Len(lastRun.sent) <= 1)
  /\ [](lastRun.outcome = "paused"
          => /\ ~lastRun.autoUpload
             /\ lastRun.sent = <<lastRun.chunk>>
             /\ LessThan(lastRun.chunk, lastRun.totalChunks)
             /\ importJob.status = "paused"
             /\ importJob.currentChunk = lastRun.chunk
             /\ loops = <<>>)
  /\ [][(lastRun'.outcome = "paused" /\ lastRun.outcome # "paused")
          => startChunk' = lastRun'.chunk + 1]_vars
  /\ []((/\ lastRun.ended
         /\ ~lastRun.autoUpload
         /\ lastRun.startedIn = "paused"
         /\ lastRun.fromChunk = lastRun.prevChunk + 1
         /\ lastRun.outcome \notin {"netfail", "nomappings"})
          => lastRun.sent = <<lastRun.prevChunk + 1>>)

\* A resume at the recorded next chunk sent that chunk and paused again.
C8_Witness ==
  /\ lastRun.outcome = "paused"
  /\ lastRun.startedIn = "paused"
  /\ lastRun.fromChunk = lastRun.prevChunk + 1

\* C9 as claimed: once stop is requested no further request is issued.
C9_NoSendAfterStop == [][uploadAbortRef => sends' = sends]_vars

\* Every uploaded count of a is at least that of b.
CountsNotBelow(a, b) ==
  /\ a.formTypes >= b.formTypes
  /\ a.extensions >= b.extensions
  /\ a.companies >= b.companies
  /\ a.filings >= b.filings

\* C9 amended: once stop is requested the loop finishes at most the iteration it
\* is in (the request in flight, or the one request of an iteration that is
\* still acquiring its token) and starts no later iteration; while the driver is
\* running with the flag set, uploaded counts and the imported total never drop.
C9_StopEndsAfterIteration ==
  /\ [](\A i \in DOMAIN loops :
          loops[i].stopped => (uploadAbortRef /\ Len(loops[i].sent) <= loops[i].stopAt))
  /\ [](lastRun.stopped => Len(lastRun.sent) <= lastRun.stopAt)
  /\ [][uploadAbortRef
          => \A i \in DOMAIN loops :
               ~(/\ loops[i].pc = "delay"
                 /\ i \in DOMAIN loops'
                 /\ loops'[i].pc = "token")]_vars
  /\ [][(uploadAbortRef /\ importJob.status = "running")
          => /\ CountsNotBelow(uploadedCounts', uploadedCounts)
             /\ importJob'.linesImported >= importJob.linesImported]_vars

\* A loop ended by the abort check after its first chunk had been counted.
C9_Witness ==
  /\ lastRun.outcome = "stopped"
  /\ Len(lastRun.sent) >= 1
  /\ uploadedCounts # ZeroCounts

\* C10 as claimed: a stop requested while chunk N < totalChunks is in flight,
\* whose response then succeeds, leaves the driver failed with the error
\* 'Upload stopped by user'.
C10_StopInFlightEndsStopped ==
  (/\ lastRun.ended
   /\ lastRun.stopPc = "inflight"
   /\ LessThan(lastRun.stopChunk, lastRun.totalChunks)
   /\ lastRun.outcome # "netfail")
    => (/\ lastRun.outcome = "stopped"
        /\ importJob.status = "failed"
        /\ importJob.error = StoppedByUser)

\* C11 as claimed: Cancel is possible from running and from paused.
C11_CancelFromRunningAndPaused ==
  importJob.status \in {"running", "paused"} => ENABLED CancelImport

\* C11 amended: Cancel is offered in pending, paused, failed and completed and
\* not in running; it resets the import job, the prepared data, the IdRemapping,
\* the start chunk and the uploaded counts and leaves no driver loop behind; a
\* request is issued only by a loop of a running upload over prepared data.
C11_CancelResets ==
  /\ []((~crashed /\ importJob.status \in {"pending", "paused", "failed", "completed"})
          => ENABLED CancelImport)
  /\ [](importJob.status = "running" => ~ENABLED CancelImport)
  /\ [][(importJob # NoJob /\ importJob' = NoJob)
          => /\ preparedImport' = Null
             /\ idMappings' = Null
             /\ startChunk' = 0
             /\ uploadedCounts' = ZeroCounts
             /\ loops' = <<>>]_vars
  /\ [](importJob = NoJob => (preparedImport = Null /\ loops = <<>>))
  /\ [][sends' # sends
          => (importJob.status = "running" /\ preparedImport # Null /\ loops # <<>>)]_vars

\* A paused upload that had sent chunks was cancelled.
C11_Witness ==
  /\ lastRun.outcome = "cancelled"
  /\ lastRun.startedIn = "paused"
  /\ importJob = NoJob
  /\ sends >= 1

C13_RemapUsesServerIds ==
  \A i \in InFlight :
    KindOf(loops[i]) = "filing"
      => /\ \A id \in 1..loops[i].preparedImport.formTypes :
              RemapId(loops[i].idMappings.formTypeIdMap, id)
                = (IF id \in DOMAIN setupResp[1] THEN setupResp[1][id] ELSE id)
         /\ \A id \in 1..loops[i].preparedImport.extensions :
              RemapId(loops[i].idMappings.extIdMap, id)
                = (IF id \in DOMAIN setupResp[2] THEN setupResp[2][id] ELSE id)

\* C14 as claimed: the cumulative filings-imported total is the sum of the
\* inserted counts the server reported for the filing chunks sent since the
\* total was last reset, whatever the reported values (0 included).
C14_TotalIsReportedSum == uploadedCounts.filings = reported

\* k = ceil(n / s), stated without the planner's arithmetic.
IsCeil(k, n, s) == k >= 0 /\ k * s >= n /\ (k = 0 \/ (k - 1) * s < n)

\* The bodies from..to carry no record of collection field c but consecutive
\* slices of 1..n, each of size s but possibly the last.
ConsecutiveSlices(bodies, from, to, n, s, field) ==
  \A k \in from..to :
    LET idx == k - from
    IN bodies[k][field] = {j \in 1..n : idx * s < j /\ j <= (idx + 1) * s}

\* C15: for a chunk size s >= 1 the walk sends totalChunks = 1 + ceil(|companies|/s)
\* + ceil(|filings|/s) chunks; chunk 1 carries every form type and extension and
\* nothing else, the next ceil(|companies|/s) chunks carry consecutive company
\* slices of size s (the last may be smaller) and nothing else, the remaining
\* chunks consecutive filing slices, and every company and every filing is in
\* exactly one chunk.
C15_ChunksPartitionData ==
  plan.phase = "done"
    => LET p == plan.p
           s == plan.size
           b == plan.bodies
           n == Len(plan.bodies)
       IN \E cc \in 0..p.companies, fc \in 0..p.filings :
            /\ IsCeil(cc, p.companies, s)
            /\ IsCeil(fc, p.filings, s)
            /\ n = 1 + cc + fc
            /\ TotalChunks(p, s) = n
            /\ b[1] = [formTypes |-> 1..p.formTypes, extensions |-> 1..p.extensions,
                       companies |-> {}, filings |-> {}]
            /\ \A k \in 2..n : b[k].formTypes = {} /\ b[k].extensions = {}
            /\ \A k \in 2..(1 + cc) : b[k].filings = {} /\ b[k].companies # {}
            /\ \A k \in (2 + cc)..n : b[k].companies = {} /\ b[k].filings # {}
            /\ ConsecutiveSlices(b, 2, 1 + cc, p.companies, s, "companies")
            /\ ConsecutiveSlices(b, 2 + cc, n, p.filings, s, "filings")
            /\ \A j \in 1..p.companies :
                 Cardinality({k \in 1..n : j \in b[k].companies}) = 1
            /\ \A j \in 1..p.filings :
                 Cardinality({k \in 1..n : j \in b[k].filings}) = 1

\* A finished walk with two company chunks and two filing chunks whose last
\* slices are smaller than the chunk size.
C15_Witness ==
  /\ plan.phase = "done"
  /\ Len(plan.bodies) = 5
  /\ plan.size = 2
  /\ plan.p.companies = 3
  /\ plan.p.filings = 3

\* The lines of the file under ParseSpec.
FileLines == parse.file.lines

\* A data row with at least 5 fields whose path holds an accession file name.
IsWellFormedRow(l) == l.kind = "row" /\ l.fields >= 5 /\ l.pathOk

\* The file lines from which pass 2 has emitted a filing, in order of emission.
Emitted == [i \in DOMAIN parse.proc.filingsRows |-> FileLines[parse.proc.filingsRows[i].row]]

\* Pass 2 is running or has published its result.
InPass2 == parse.phase \in {"parse", "done"}

\* C16 as claimed: for a file without malformed data rows, processed without a
\* row limit, the count of pass 1 equals the number of filings pass 2 emits,
\* whether or not the last line ends in a newline.
C16_CountEqualsEmitted ==
  (/\ parse.phase = "done"
   /\ parse.rowLimit = Infinity
   /\ \A k \in DOMAIN FileLines : IsDataRow(FileLines[k]) => IsWellFormedRow(FileLines[k]))
    => parse.fileRowCount = Len(parse.prepared.filings)

\* C17 as claimed: at the end of the stream each pass has looked at every line
\* of the file, the last line included when no newline follows it, and pass 2
\* has emitted a filing for a well-formed last data row.
C17_FinalLineYielded ==
  /\ (InPass2 => parse.count.seen = Len(FileLines))
  /\ ((parse.phase = "done" /\ ~parse.proc.reachedLimit)
        => /\ parse.proc.seen = Len(FileLines)
           /\ \A n \in DOMAIN FileLines :
                (n = Len(FileLines) /\ IsWellFormedRow(FileLines[n]))
                  => \E i \in DOMAIN parse.proc.filingsRows :
                       parse.proc.filingsRows[i].row = n)

\* Position of the first element of seq for which the code (by field) is c.
FirstOf(seq, field, c) ==
  CHOOSE i \in DOMAIN seq :
    seq[i][field] = c /\ \A j \in 1..(i - 1) : seq[j][field] # c

\* map holds exactly the values of field over the emitted rows, numbered 1..n
\* in the order in which the values first appear.
DenseFirstSeen(map, field) ==
  /\ \A k \in DOMAIN map : map[k].value = k
  /\ \A a, b \in DOMAIN map : map[a].key = map[b].key => a = b
  /\ {map[k].key : k \in DOMAIN map} = {Emitted[i][field] : i \in DOMAIN Emitted}
  /\ \A a, b \in DOMAIN map :
       a < b => FirstOf(Emitted, field, map[a].key) < FirstOf(Emitted, field, map[b].key)

\* Every entry of map is an entry of map2, at the same place.
EntriesKept(map, map2) ==
  \A k \in DOMAIN map : k \in DOMAIN map2 /\ map2[k] = map[k]

\* C18: after every read of pass 2 the form-type dictionary holds the ids 1..n
\* for the n distinct codes of the emitted rows, in order of first appearance,
\* every filing row carries the id of its code, no step changes an id once
\* assigned, and the published dictionaries carry the same ids; likewise for
\* the extension dictionary.
C18_DictionaryIdsDense ==
  /\ [](InPass2
          => /\ DenseFirstSeen(parse.proc.formTypes, "form")
             /\ DenseFirstSeen(parse.proc.extensions, "ext")
             /\ \A i \in DOMAIN Emitted :
                  /\ parse.proc.filingsRows[i].form_type_id
                       = Get(parse.proc.formTypes, Emitted[i].form)
                  /\ parse.proc.filingsRows[i].ext_id
                       = Get(parse.proc.extensions, Emitted[i].ext))
  /\ [][(InPass2 /\ parse.phase = "parse")
          => /\ EntriesKept(parse.proc.formTypes, parse'.proc.formTypes)
             /\ EntriesKept(parse.proc.extensions, parse'.proc.extensions)]_vars
  /\ [](parse.phase = "done"
          => /\ \A k \in DOMAIN parse.prepared.formTypes :
                  /\ parse.prepared.formTypes[k].id = k
                  /\ parse.prepared.formTypes[k].code = parse.proc.formTypes[k].key
             /\ \A k \in DOMAIN parse.prepared.extensions :
                  /\ parse.prepared.extensions[k].id = k
                  /\ parse.prepared.extensions[k].ext = parse.proc.extensions[k].key)

\* Three rows were emitted over two form types and two extensions, so a code
\* was met again after another code had been numbered.
C18_Witness ==
  /\ parse.phase = "done"
  /\ Len(parse.proc.filingsRows) = 3
  /\ Len(parse.proc.formTypes) = 2
  /\ Len(parse.proc.extensions) = 2
  /\ parse.proc.filingsRows[3].form_type_id = 1

\* C19: the company collection holds each CIK of the emitted rows once, with
\* the name of the first emitted row of that CIK; no step changes a stored
\* entry, and the published companies are those entries.
C19_FirstNameWins ==
  /\ [](InPass2
          => LET map == parse.proc.companies IN
             /\ \A a, b \in DOMAIN map : map[a].key = map[b].key => a = b
             /\ {map[k].key : k \in DOMAIN map} = {Emitted[i].cik : i \in DOMAIN Emitted}
             /\ \A k \in DOMAIN map :
                  map[k].value = Emitted[FirstOf(Emitted, "cik", map[k].key)].name)
  /\ [][(InPass2 /\ parse.phase = "parse")
          => EntriesKept(parse.proc.companies, parse'.proc.companies)]_vars
  /\ [](parse.phase = "done"
          => /\ Len(parse.prepared.companies) = Len(parse.proc.companies)
             /\ \A k \in DOMAIN parse.prepared.companies :
                  /\ parse.prepared.companies[k].cik = parse.proc.companies[k].key
                  /\ parse.prepared.companies[k].name = parse.proc.companies[k].value)

\* Two rows of one CIK with different names were emitted.
C19_Witness ==
  /\ parse.phase = "done"
  /\ \E i, j \in DOMAIN Emitted :
       i < j /\ Emitted[i].cik = Emitted[j].cik /\ Emitted[i].name # Emitted[j].name

\* Line n is looked at in data state: it is, or follows, a line that starts
\* with digits and a pipe and holds no '---'.
PastHeader(n) == \E j \in 1..n : IsDataRow(FileLines[j]) /\ ~FileLines[j].dashes

\* The numbers of the well-formed data rows among lines 1..n that are looked at
\* in data state, in file order.
RECURSIVE WellFormedRows(_)
WellFormedRows(n) ==
  IF n = 0 THEN <<>>
  ELSE IF IsWellFormedRow(FileLines[n]) /\ PastHeader(n)
    THEN Append(WellFormedRows(n - 1), n)
  ELSE WellFormedRows(n - 1)

\* C20: no filing is emitted from a data row with fewer than 5 fields or a path
\* without an accession file name; a read that delivers only such rows leaves
\* the filings and the three dictionaries as they were and raises no error; and
\* until the row limit stops the pass, the filings emitted are exactly the
\* well-formed data rows among the lines delivered and not skipped as header,
\* in file order, so the rows after a dropped row are processed.
C20_MalformedRowsDropped ==
  /\ [](InPass2 => \A i \in DOMAIN Emitted : IsWellFormedRow(Emitted[i]))
  /\ [][(/\ parse.phase = "parse"
          /\ parse'.phase = "parse"
          /\ \A k \in (parse.proc.pos + 1)..parse'.proc.pos :
               IsDataRow(FileLines[k]) /\ ~IsWellFormedRow(FileLines[k]))
          => /\ parse'.proc.filingsRows = parse.proc.filingsRows
             /\ parse'.proc.companies = parse.proc.companies
             /\ parse'.proc.formTypes = parse.proc.formTypes
             /\ parse'.proc.extensions = parse.proc.extensions
             /\ parse'.error = ""]_vars
  /\ []((InPass2 /\ ~parse.proc.reachedLimit)
          => [i \in DOMAIN parse.proc.filingsRows |-> parse.proc.filingsRows[i].row]
               = WellFormedRows(parse.proc.pos))

\* A malformed data row was dropped and a later row of the file was emitted.
C20_Witness ==
  /\ parse.phase = "done"
  /\ \E k \in DOMAIN FileLines :
       /\ IsDataRow(FileLines[k])
       /\ ~IsWellFormedRow(FileLines[k])
       /\ \E i \in DOMAIN parse.proc.filingsRows : parse.proc.filingsRows[i].row > k

\* Pass 2 runs under a row limit (test mode).
Limited == InPass2 /\ parse.rowLimit # Infinity

\* What pass 2 emits from the whole file when no row limit applies.
UnlimitedRows ==
  ProcessLines(ProcessStart, FileLines, 1, EndOfStream(parse.file)[1], Infinity).filingsRows

\* seq is an initial segment of full.
IsPrefix(seq, full) ==
  Len(seq) <= Len(full) /\ \A i \in DOMAIN seq : seq[i] = full[i]

\* Under a row limit, pass 2 never holds more filings than the limit.
LimitRespected == Limited => Len(parse.proc.filingsRows) <= parse.rowLimit

\* Under a row limit, the filings of pass 2 are the first ones of the unlimited
\* parse of the same file.
PrefixOfUnlimited == Limited => IsPrefix(parse.proc.filingsRows, UnlimitedRows)

\* A step in which reader.read() of pass 2 delivers text.
IsProcessRead ==
  /\ parse.phase = "parse"
  /\ parse'.phase = "parse"
  /\ <<parse'.proc.pos, parse'.proc.buffer>> # <<parse.proc.pos, parse.proc.buffer>>

\* Once as many filings as the row limit are held, pass 2 reads no more of
\* the stream.
NoReadAfterLimit ==
  [][(Limited /\ Len(parse.proc.filingsRows) >= parse.rowLimit) => ~IsProcessRead]_vars

\* C21 as claimed: under a row limit L pass 2 emits at most L filings, they
\* are a prefix of what the unlimited parse emits, and the stream is not read
\* again once L filings are emitted.
C21_RowLimitStopsReading ==
  /\ []LimitRespected
  /\ []PrefixOfUnlimited
  /\ NoReadAfterLimit

\* The locals of a pass without its place in the stream.
Placeless(st) == [st EXCEPT !.pos = 0, !.buffer = ""]

\* The locals of pass 1 after a single read that delivers lines 1..n.
OneReadCount(n) == CountLines(CountStart, FileLines, 1, n)

\* The locals of pass 2 after a single read that delivers lines 1..n.
OneReadParse(n) == ProcessLines(ProcessStart, FileLines, 1, n, parse.rowLimit)

\* The row count pass 1 publishes when the whole stream arrives in one read.
OneReadRowCount ==
  LET e == EndOfStream(parse.file)
      st == OneReadCount(e[1])
  IN IF e[2] # "" /\ IsDataRow(FileLines[e[1] + 1]) THEN st.rowCount + 1 ELSE st.rowCount

DataRowsUpTo(n) == {k \in 1..n : IsDataRow(FileLines[k])}

\* C24 as claimed: each pass is in data state exactly when it has looked at a
\* line that starts with digits and a pipe, never leaves data state, and the
\* row count of pass 1 is the number of lines of the file that start with
\* digits and a pipe (all of them lie from the first such line onward).
C24_TwoStateClassifier ==
  /\ [](parse.phase = "count"
          => (parse.count.headerSkipped <=> DataRowsUpTo(parse.count.pos) # {}))
  /\ []((parse.phase = "parse" /\ ~parse.proc.reachedLimit)
          => (parse.proc.headerSkipped <=> DataRowsUpTo(parse.proc.pos) # {}))
  /\ [][/\ parse.count.headerSkipped => parse'.count.headerSkipped
        /\ parse.proc.headerSkipped => parse'.proc.headerSkipped]_vars
  /\ [](InPass2 => parse.fileRowCount = Cardinality(DataRowsUpTo(Len(FileLines))))

\* The numbers of the well-formed data rows among lines 1..n, in file order.
RECURSIVE ValidRows(_)
ValidRows(n) ==
  IF n = 0 THEN <<>>
  ELSE IF IsWellFormedRow(FileLines[n]) THEN Append(ValidRows(n - 1), n)
  ELSE ValidRows(n - 1)

\* C26 as claimed: parsed without a row limit, the published filings are one
\* record for each well-formed data row of the file, in file order.
C26_OneRecordPerValidRow ==
  (parse.phase = "done" /\ parse.rowLimit = Infinity)
    => [i \in DOMAIN parse.prepared.filings |-> parse.prepared.filings[i].row]
         = ValidRows(Len(FileLines))

\* The values of field over the elements of seq.
Values(seq, field) == {seq[k][field] : k \in DOMAIN seq}

\* C30 as claimed: the published prepared data is referentially closed.  Every filing
\* carries a form-type id and an extension id of a dictionary entry and the
\* CIK of a company; every dictionary entry and every company is referenced by
\* a filing; ids and CIKs are not repeated.  The locals of pass 2 are closed
\* in the same way after every read.
C30_ReferentiallyClosed ==
  /\ parse.phase = "done"
       => LET p == parse.prepared IN
          /\ Values(p.filings, "form_type_id") = Values(p.formTypes, "id")
          /\ Values(p.filings, "ext_id") = Values(p.extensions, "id")
          /\ Values(p.filings, "cik") = Values(p.companies, "cik")
          /\ Cardinality(Values(p.formTypes, "id")) = Len(p.formTypes)
          /\ Cardinality(Values(p.extensions, "id")) = Len(p.extensions)
          /\ Cardinality(Values(p.companies, "cik")) = Len(p.companies)
  /\ InPass2
       => LET st == parse.proc IN
          /\ Values(st.filingsRows, "form_type_id") = Values(st.formTypes, "value")
          /\ Values(st.filingsRows, "ext_id") = Values(st.extensions, "value")
          /\ Values(st.filingsRows, "cik") = Values(st.companies, "key")

\* C27 as claimed: a driver loop that has ended has left the job paused,
\* completed or failed, and the job is never running without a driver loop
\* that is active or awaiting a call.
C27_LoopLeavesRunning ==
  /\ lastRun.ended => importJob.status \in {"paused", "completed", "failed"}
  /\ importJob.status = "running" => loops # <<>>

\* The job is running with no driver loop although the prepared data has
\* chunks to send.
StuckWithChunks ==
  /\ importJob.status = "running"
  /\ loops = <<>>
  /\ importJob.totalChunks >= 3

\* C28 as claimed: from the start of an upload on, the imported total shown
\* for the job equals the filings counter of uploadedCounts.
C28_LinesImportedIsUploadedFilings ==
  importJob.status \in {"running", "paused", "failed", "completed"}
    => importJob.linesImported = uploadedCounts.filings

\* The two counters differ in a run that was resumed with start chunk 1.
ResumedFromChunkOne ==
  /\ loops # <<>>
  /\ loops[1].fromChunk = 1
  /\ loops[1].startedIn = "paused"
  /\ importJob.linesImported # uploadedCounts.filings

\* The selected file has been counted and no pass 1 is running.
Counted == file # "" /\ fileRowCount # Undef /\ ~counting /\ counters = {}

\* Once the selected file is counted, the prepared data held is that of the
\* selected file.
PreparedFromSelectedFile ==
  (Counted /\ preparedImport # Null) => preparedImport = PreparedOf(file)

\* Once the selected file is counted, every bulk-insert request issued carries
\* a chunk of the prepared data of the selected file.
NoChunkOfPreviousFile ==
  [][(Counted /\ sends' > sends)
       => \A i \in DOMAIN loops :
            loops[i].pc = "token" => loops[i].preparedImport = PreparedOf(file)]_vars

\* processFile starts only when no pass 1 is running and no prepared data is
\* held.
ParseStartsAlone ==
  [][(~processing /\ processing') => (counters' = {} /\ preparedImport = Null)]_vars

\* C29 as claimed: the prepared data derives from the selected file, no chunk
\* of the data of a previous file is sent once a new file is selected and
\* counted, and no parse is started while a count or a parse is running or
\* prepared data is held.
C29_PreparedFromCurrentFile ==
  /\ []PreparedFromSelectedFile
  /\ NoChunkOfPreviousFile
  /\ ParseStartsAlone

\* A step in which a read of pass 1 or pass 2 throws.
IsFailedRead == failedRuns'.files \ failedRuns.files # {}

\* A pass that throws reports an error and stores neither prepared data nor a
\* job.
FailureStoresNothing ==
  [][IsFailedRead
       => /\ error' \in {"Failed to count rows", "Failed to process file"}
          /\ preparedImport' = preparedImport
          /\ importJob' = importJob]_vars

\* processFile is not started on a file a pass has thrown on.
NoParseOfFailedFile ==
  [][(~processing /\ processing') => file \notin failedRuns'.files]_vars

\* The job does not become pending with the prepared data of a file a pass
\* has thrown on.
NoPendingForFailedFile ==
  [][(importJob.status # "pending" /\ importJob'.status = "pending")
       => procFile \notin failedRuns.files]_vars

\* C23 as claimed: when a read of pass 1 or pass 2 throws, an error is
\* reported and nothing is stored, and from then on no parse is run on that
\* file and the job never becomes pending for it (so no bulk-insert request is
\* made from it), until the file is selected again.
C23_FailedRunLeavesNothing ==
  /\ FailureStoresNothing
  /\ NoParseOfFailedFile
  /\ NoPendingForFailedFile

====
